---- MODULE Spec2Model ----
(***************************************************************************)
(* Session coordination of the image viewer clients.                       *)
(*                                                                         *)
(* Two viewers are modelled, chosen by the variable ui:                    *)
(*   "dom"   - the DOM viewer script (state object, requestFrame,          *)
(*             applyFrame, startOperation, cancelOperation, handleOpEvent) *)
(*   "react" - the React viewer page (requestTokenRef, requestFrame,       *)
(*             setFrame, the menu zoom commands); it has no job handling.  *)
(*                                                                         *)
(* Three further pages have variables of their own: the control window    *)
(* (its launcher-open-result subscription), the legacy single-window UI    *)
(* (render of app.js) and the toast provider.                              *)
(*                                                                         *)
(* Every await of the source is a point where the coroutine is suspended:  *)
(* the part of a handler up to its first await is one action, and each     *)
(* continuation after an await is another action.  The backend is the      *)
(* environment: it answers each call with a result or an error and emits   *)
(* job events.                                                             *)
(***************************************************************************)
EXTENDS Integers, Sequences, FiniteSets

VARIABLES
    ui,             \* which viewer this session runs
    requestToken,   \* state.requestToken / requestTokenRef.current
    frame,          \* state.frame / frame: id of the frame held
    frameImage,     \* state.frameImage / imageCanvasRef.current: the frame whose image is drawn
    histogram,      \* the frame whose histogram drawHistogram drew last
    statusBar,      \* ids.statusBar.textContent / status
    call,           \* call[k]: position of the requestFrame invocation that took token k
    via,            \* via[k]: who invoked requestFrame for token k
    fresh,          \* tokens whose backend answer arrived while they were still current
    shown,          \* the frames written to the display, in order
    burst,          \* no requestFrame was issued after a backend answer had arrived
    busy,           \* state.busy
    activeJobId,    \* state.activeJobId (NoJob is null)
    processStatus,  \* ids.processStatus.textContent
    startCall,      \* startCall[s]: position of the s-th viewer_start_op invocation
    job,            \* job[j]: the backend's status of job j
    evQueue,        \* terminal events emitted by the backend, not yet delivered
    evSeen,         \* jobs whose terminal event has been delivered at least once
    cancelSent,     \* viewer_cancel_op requests the backend has not processed yet
    retired,        \* jobs retired by the viewer: a terminal event of the job was
                    \* consumed while it was the tracked job
    consumed,       \* jobs a terminal event of which passed the filter of
                    \* handleOpEvent, tracked or not
    zoom,           \* state.zoom / zoom, a rational number
    panX,           \* state.panX / panX, a rational number
    panY,           \* state.panY / panY, a rational number
    viewSteps,      \* the number of viewport operations carried out
    clamped,        \* the last zoom operation was limited by the zoom range
    initStep,       \* how far init() / the viewer_init effect has come
    summary,        \* state.context.summary / viewerInit.summary (NoSummary before)
    skipNext,       \* skipNextFrameRequestRef.current
    sliderMax,      \* the max attribute of the three axis sliders
    axis,           \* state.z, state.t, state.channel / z, t, channel
    request,        \* the request argument of the most recent viewer_frame call
    hover,          \* state.hoverX, hoverY, hoverValue / hover (NoHover is null)
    dragging,       \* state.dragging / dragging
    lastMouse,      \* state.lastMouseX, lastMouseY / lastMouse
    reqCap,         \* how many requestFrame invocations the session is followed for
    jobCap,         \* how many viewer_start_op invocations the session is followed for
    listenCall,     \* control window: listenCall[e], position of the tauriListen call of effect run e
    registered,     \* control window: the effect runs whose handler is subscribed to launcher-open-result
    unlisten,       \* control window: the effect runs whose variable unlisten holds the cleanup
    cleaned,        \* control window: the effect runs whose cleanup has run (the component unmounted)
    result,         \* control window: result (0 is null)
    inputState,     \* legacy UI: state.z, state.t, state.channel
    renders,        \* legacy UI: renders[r], the r-th render invocation: its position (call) and
                    \* the axis positions sent with render_slice and slice_histogram
    image,          \* legacy UI: the axis position of ids.image.src
    drawn,          \* legacy UI: the axis position of the histogram drawn
    status,         \* legacy UI: ids.status.textContent
    toasts,         \* toast provider: toasts, the ids in order
    created,        \* toast provider: the number of toasts created (their ids are 1..created)
    armed           \* toast provider: the ids whose timeout has not fired yet

frameVars == <<requestToken, request, frame, frameImage, histogram, statusBar, call, via,
              fresh, shown, burst>>
jobVars   == <<busy, activeJobId, processStatus>>
envVars   == <<startCall, job, evQueue, evSeen, cancelSent, retired, consumed>>
pointerVars == <<hover, dragging, lastMouse>>
viewVars  == <<zoom, panX, panY, viewSteps, clamped, pointerVars>>
axisVars  == <<initStep, summary, skipNext, sliderMax, axis>>
capVars   == <<reqCap, jobCap>>
controlVars == <<listenCall, registered, unlisten, cleaned, result>>
legacyVars == <<inputState, renders, image, drawn, status>>
toastVars == <<toasts, created, armed>>
\* the pages besides the viewer: control window, legacy UI, toast provider
pageVars  == <<controlVars, legacyVars, toastVars>>
viewerVars == <<ui, capVars, frameVars, jobVars, envVars, viewVars, axisVars>>
vars      == <<viewerVars, pageVars>>

\* Bounds of the model.
MaxReq  == 3    \* requestFrame invocations per session
MaxJobs == 2    \* viewer_start_op invocations per session
JobMaxReq == 2       \* refresh requests followed on the job side
CoordMaxReq == 2     \* requestFrame invocations when frames and jobs run together
CoordMaxJobs == 1    \* viewer_start_op invocations when frames and jobs run together
HoverMaxReq == 2     \* requestFrame invocations followed under the pointer
MaxMounts == 2       \* runs of the subscription effect of the control window
MaxResults == 2      \* distinct payloads of launcher-open-result
MaxRenders == 3      \* render invocations of the legacy UI
LegacyMax == 1       \* the max of the axis sliders of the legacy UI
MaxToasts == 4       \* toasts created by the toast provider
MaxViewSteps == 2    \* viewport operations applied to a sampled viewport

\* state.activeJobId: null
NoJob == 0
\* the token of the frame delivered by viewer_init (state.requestToken: 0)
DefaultFrame == 0

MantissaBits == 8    \* significant bits of the floating-point numbers modelled
MaxSlices == 2       \* z_slices of the datasets opened
PreInitMax == 3      \* the max of an axis slider before configureSliders ran
FrameWidth == 3      \* frame.width
FrameHeight == 2     \* frame.height

\* state.frame / frame is null until the default frame is shown
NoFrame == -1
\* no viewer_frame call has been made
NoRequest == [z |-> -1, t |-> -1, channel |-> -1]
\* state.context / viewerInit is null
NoSummary == [z_slices |-> -1, times |-> -1, channels |-> -1]
\* hover is null / state.hoverX, hoverY, hoverValue are null
NoHover == [x |-> -1, y |-> -1, value |-> <<NoFrame, -1>>]
\* lastMouse is null
NoMouse == <<-1, -1>>

Axes == {"z", "t", "channel"}

\* The summaries of the datasets opened: a dataset without z slices, with
\* one and with several, with one or two time points, and one channel.
Summaries == [z_slices : 0..MaxSlices, times : {1, 2}, channels : {1}]

\* The dataset of a viewer that is observed from the end of its
\* initialisation on.
SampleSummary == [z_slices |-> 2, times |-> 1, channels |-> 1]

\* summary.z_slices, summary.times, summary.channels
Extent(sum, a) ==
    CASE a = "z" -> sum.z_slices
      [] a = "t" -> sum.times
      [] a = "channel" -> sum.channels

\* Math.max(0, extent - 1): the last position of an axis.  The React viewer
\* renders (summary?.extent ?? 1) - 1 while viewerInit is null.
LastPosition(sum, a) ==
    IF sum = NoSummary THEN 0
    ELSE IF Extent(sum, a) - 1 < 0 THEN 0 ELSE Extent(sum, a) - 1

Tokens     == 1..MaxReq
JobIds     == 1..MaxJobs
ForeignJob == MaxJobs + 1      \* a job id this session never started
Terminal   == {"completed", "failed", "cancelled"}
Statuses   == Terminal \cup {"running"}

Range(s) == {s[i] : i \in 1..Len(s)}

\* updateStatusBar(): the readout carries the busy note.
Readout(b) == IF b THEN "ReadoutBusy" ELSE "Readout"

----
\* Rational arithmetic: the viewport numbers are JavaScript numbers, modelled
\* as exact fractions [n |-> numerator, d |-> denominator] in lowest terms
\* with d > 0.

Abs(x) == IF x < 0 THEN -x ELSE x

RECURSIVE GCD(_, _)
GCD(a, b) == IF b = 0 THEN a ELSE GCD(b, a % b)

Rat(n, d) ==
    LET g == GCD(Abs(n), Abs(d))
        sg == IF d < 0 THEN -1 ELSE 1
    IN  [n |-> sg * (n \div g), d |-> sg * (d \div g)]

RatInt(k)     == [n |-> k, d |-> 1]
\* Sum and difference over the least common denominator.
CommonDenominator(a, b) == (a.d \div GCD(a.d, b.d)) * b.d
RatSub(a, b)  ==
    LET c == CommonDenominator(a, b)
    IN  Rat(a.n * (c \div a.d) - b.n * (c \div b.d), c)
RatAdd(a, b)  ==
    LET c == CommonDenominator(a, b)
    IN  Rat(a.n * (c \div a.d) + b.n * (c \div b.d), c)
\* the product, with the common factors removed before multiplying
RatMul(a, b)  ==
    LET g1 == GCD(Abs(a.n), b.d)
        g2 == GCD(Abs(b.n), a.d)
    IN  Rat((a.n \div g1) * (b.n \div g2), (a.d \div g2) * (b.d \div g1))
RatDiv(a, b)  == RatMul(a, Rat(b.d, b.n))
RatLeq(a, b)  == a.n * b.d <= b.n * a.d
RatMin(a, b)  == IF RatLeq(a, b) THEN a ELSE b     \* Math.min
RatMax(a, b)  == IF RatLeq(a, b) THEN b ELSE a     \* Math.max

\* Math.floor
Floor(a) == a.n \div a.d

RECURSIVE Pow2(_)
Pow2(k) == IF k = 0 THEN 1 ELSE 2 * Pow2(k - 1)

\* The range of a normalised mantissa.
MantissaLow == Pow2(MantissaBits - 1)
MantissaHigh == Pow2(MantissaBits)

\* The exponent e and the scaled fraction n / d with
\* MantissaLow <= n / d < MantissaHigh and n / d * 2^e the given positive
\* number.
RECURSIVE Normalised(_, _, _)
Normalised(n, d, e) ==
    IF n >= d * MantissaHigh THEN Normalised(n, 2 * d, e + 1)
    ELSE IF n < d * MantissaLow THEN Normalised(2 * n, d, e - 1)
    ELSE [n |-> n, d |-> d, e |-> e]

\* The integer nearest to n / d, ties to the even one.
RoundHalfEven(n, d) ==
    LET q == n \div d
        twice == 2 * (n - q * d)
    IN  IF twice > d \/ (twice = d /\ q % 2 = 1) THEN q + 1 ELSE q

\* The result of a floating-point operation whose exact result is a: the
\* nearest number with MantissaBits significant binary digits.  (A JavaScript
\* number has 53; the rounding is the same at every precision, only the size
\* of the error differs.)
Fl(a) ==
    IF a.n = 0 THEN a
    ELSE LET s == Normalised(Abs(a.n), a.d, 0)
             m == RoundHalfEven(s.n, s.d)
             magnitude == IF s.e >= 0 THEN Rat(m * Pow2(s.e), 1)
                                      ELSE Rat(m, Pow2(0 - s.e))
         IN  IF a.n < 0 THEN Rat(0 - magnitude.n, magnitude.d) ELSE magnitude

\* The limits and the steps of the zoom.
ZoomMin    == Rat(1, 10)      \* 0.1
ZoomMax    == RatInt(64)
WheelStep  == Rat(112, 100)   \* 1.12
MenuStep   == Rat(12, 10)     \* 1.2
InitialZoom == RatInt(1)
\* state.panX: 18 / INITIAL_PAN = 20
InitialPan == RatInt(IF ui = "dom" THEN 18 ELSE 20)

----
\* Control window: the subscription effect of ControlWindowPage

Mounts == 1..MaxMounts
OpenResults == 1..MaxResults

\* The effect runs so far.
EffectRuns == 1..Len(listenCall)

\* The component has mounted and its effect has called tauriListen.
ControlInit ==
    /\ listenCall = <<"awaitListen">>
    /\ registered = {}
    /\ unlisten = {}
    /\ cleaned = {}
    /\ result = 0

\* The effect run whose cleanup has not run.
Mounted(e) == e \in EffectRuns /\ e \notin cleaned

\* The component mounts again: useState(null), and the effect calls
\* tauriListen with a new handler and a new unlisten variable.
MountControl(e) ==
    /\ e = Len(listenCall) + 1
    /\ (e - 1) \in cleaned
    /\ listenCall' = Append(listenCall, "awaitListen")
    /\ result' = 0
    /\ UNCHANGED <<registered, unlisten, cleaned>>
    /\ UNCHANGED <<viewerVars, legacyVars, toastVars>>

\* listen(eventName, handler) at the runtime: the handler is subscribed and
\* the promise is resolved with the function that removes it, or the call is
\* rejected.
RuntimeListen(e, ok) ==
    /\ e \in EffectRuns
    /\ listenCall[e] = "awaitListen"
    /\ listenCall' = [listenCall EXCEPT ![e] = IF ok THEN "subscribed" ELSE "rejected"]
    /\ registered' = IF ok THEN registered \cup {e} ELSE registered
    /\ UNCHANGED <<unlisten, cleaned, result>>
    /\ UNCHANGED <<viewerVars, legacyVars, toastVars>>

\* .then((cleanup) => { unlisten = cleanup; })
ListenResolved(e) ==
    /\ e \in EffectRuns
    /\ listenCall[e] = "subscribed"
    /\ listenCall' = [listenCall EXCEPT ![e] = "resolved"]
    /\ unlisten' = unlisten \cup {e}
    /\ UNCHANGED <<registered, cleaned, result>>
    /\ UNCHANGED <<viewerVars, legacyVars, toastVars>>

\* The cleanup of the effect, run when the component unmounts:
\* if (unlisten) { unlisten(); }
UnmountControl(e) ==
    /\ Mounted(e)
    /\ cleaned' = cleaned \cup {e}
    /\ registered' = IF e \in unlisten THEN registered \ {e} ELSE registered
    /\ UNCHANGED <<listenCall, unlisten, result>>
    /\ UNCHANGED <<viewerVars, legacyVars, toastVars>>

\* A launcher-open-result event reaches the handler of effect run e:
\* setResult(event.payload).
OpenResultEvent(e, payload) ==
    /\ e \in registered
    /\ result' = payload
    /\ UNCHANGED <<listenCall, registered, unlisten, cleaned>>
    /\ UNCHANGED <<viewerVars, legacyVars, toastVars>>

----
\* Legacy single-window UI (app.js)

\* An axis position (z, t, channel) is kept as one number,
\* z * B * B + t * B + channel with B the number of positions of a slider.
LegacyBase == LegacyMax + 1

AxisWeight(key) ==
    CASE key = "z" -> LegacyBase * LegacyBase
      [] key = "t" -> LegacyBase
      [] key = "channel" -> 1

\* state[key] of position p
AxisOf(p, key) == (p \div AxisWeight(key)) % LegacyBase

\* position p after state[key] = v
WithAxis(p, key, v) == p + (v - AxisOf(p, key)) * AxisWeight(key)

\* no request was sent
NoPosition == -1

\* The render invocations so far.
Renders == 1..Len(renders)

\* An image is loaded: load() has set state.inputPath, configured the
\* sliders and rendered position (0, 0, 0).
LegacyInit ==
    /\ inputState = 0
    /\ renders = <<>>
    /\ image = 0
    /\ drawn = 0
    /\ status = "Ready"

\* The input listener of updateAxisFromSlider and render() up to its first
\* await: the position is stored and render_slice is called with it.
UpdateAxisFromSlider(key, v) ==
    /\ v \in 0..LegacyMax
    /\ v # AxisOf(inputState, key)
    /\ Len(renders) < MaxRenders
    /\ inputState' = WithAxis(inputState, key, v)
    /\ renders' = Append(renders, [call |-> "awaitSlice", slice |-> inputState',
                                   histogram |-> NoPosition])
    /\ status' = "Rendering"
    /\ UNCHANGED <<image, drawn>>
    /\ UNCHANGED <<viewerVars, controlVars, toastVars>>

\* The position render() sends with slice_histogram: state.z, state.t and
\* state.channel are read again after the first await.
HistogramPosition(r) == inputState

\* render() after `await invoke("render_slice")`: the image is shown and
\* slice_histogram is called.  A rejected call throws out of the listener.
RenderSliceDone(r, ok) ==
    /\ r \in Renders
    /\ renders[r].call = "awaitSlice"
    /\ IF ok
       THEN /\ image' = renders[r].slice
            /\ renders' = [renders EXCEPT ![r].call = "awaitHistogram",
                                          ![r].histogram = HistogramPosition(r)]
       ELSE /\ renders' = [renders EXCEPT ![r].call = "threw"]
            /\ UNCHANGED image
    /\ UNCHANGED <<inputState, drawn, status>>
    /\ UNCHANGED <<viewerVars, controlVars, toastVars>>

\* render() after `await invoke("slice_histogram")`: the histogram is drawn
\* and the status is set to Ready.
RenderHistogramDone(r, ok) ==
    /\ r \in Renders
    /\ renders[r].call = "awaitHistogram"
    /\ IF ok
       THEN /\ drawn' = renders[r].histogram
            /\ status' = "Ready"
            /\ renders' = [renders EXCEPT ![r].call = "done"]
       ELSE /\ renders' = [renders EXCEPT ![r].call = "threw"]
            /\ UNCHANGED <<drawn, status>>
    /\ UNCHANGED <<inputState, image>>
    /\ UNCHANGED <<viewerVars, controlVars, toastVars>>

----
\* Toast provider (use-toast.tsx)

ToastIds == 1..MaxToasts

ToastInit ==
    /\ toasts = <<>>
    /\ created = 0
    /\ armed = {}

\* A faulty variant of the filter: the oldest toast is removed.
WithoutOldest(prev, id) == IF prev = <<>> THEN prev ELSE Tail(prev)

\* prev.filter((toast) => toast.id !== id)
Without(prev, id) == SelectSeq(prev, LAMBDA item : item # id)

\* toast(value): a new id (crypto.randomUUID()) is appended and its timeout
\* is armed.
ToastAdd(id) ==
    /\ id = created + 1
    /\ created' = id
    /\ toasts' = Append(toasts, id)
    /\ armed' = armed \cup {id}
    /\ UNCHANGED <<viewerVars, controlVars, legacyVars>>

\* The timeout of toast id fires: dismiss(id).
TimerFires(id) ==
    /\ id \in armed
    /\ armed' = armed \ {id}
    /\ toasts' = Without(toasts, id)
    /\ UNCHANGED created
    /\ UNCHANGED <<viewerVars, controlVars, legacyVars>>

\* dismiss(id), called by the Toaster when a toast closes, or by any user of
\* the context.
Dismiss(id) ==
    /\ toasts' = Without(toasts, id)
    /\ UNCHANGED <<created, armed>>
    /\ UNCHANGED <<viewerVars, controlVars, legacyVars>>

\* The pages besides the viewer, as they start.
PagesInit == ControlInit /\ LegacyInit /\ ToastInit

----
\* The frame and job state once init() has run: the default frame of
\* viewer_init is displayed, the context is set and the event listener is
\* registered.
ReadyInit ==
    /\ ui \in {"dom", "react"}
    /\ requestToken = 0
    /\ request = NoRequest
    /\ frame = DefaultFrame
    /\ frameImage = DefaultFrame
    /\ histogram = DefaultFrame
    /\ statusBar = IF ui = "dom" THEN Readout(FALSE) ELSE "Ready"
    /\ initStep = "ready"
    /\ summary = SampleSummary
    /\ skipNext = FALSE
    /\ sliderMax = [a \in Axes |-> LastPosition(SampleSummary, a)]
    /\ axis = [a \in Axes |-> 0]
    /\ hover = NoHover
    /\ dragging = FALSE
    /\ lastMouse = IF ui = "dom" THEN <<0, 0>> ELSE NoMouse
    /\ call = [k \in Tokens |-> "none"]
    /\ via = [k \in Tokens |-> "none"]
    /\ fresh = {}
    /\ shown = <<>>
    /\ burst = TRUE
    /\ busy = FALSE
    /\ activeJobId = NoJob
    /\ processStatus = ""
    /\ startCall = [s \in JobIds |-> "none"]
    /\ job = [j \in JobIds |-> "none"]
    /\ evQueue = <<>>
    /\ evSeen = {}
    /\ cancelSent = {}
    /\ retired = {}
    /\ consumed = {}
    /\ PagesInit

\* A viewer whose script or component has just started: viewer_init has not
\* answered, no frame is displayed, and the sliders have the max of the
\* markup (DOM viewer) or 0 (React viewer).
LoadingInit ==
    /\ ui \in {"dom", "react"}
    /\ requestToken = 0
    /\ request = NoRequest
    /\ reqCap = MaxReq
    /\ jobCap = MaxJobs
    /\ frame = NoFrame
    /\ frameImage = NoFrame
    /\ histogram = NoFrame
    /\ statusBar = IF ui = "dom" THEN "Loading" ELSE "Ready"
    /\ initStep = "loading"
    /\ summary = NoSummary
    /\ skipNext = FALSE
    /\ sliderMax = [a \in Axes |-> IF ui = "dom" THEN PreInitMax ELSE LastPosition(NoSummary, a)]
    /\ axis = [a \in Axes |-> 0]
    /\ hover = NoHover
    /\ dragging = FALSE
    /\ lastMouse = IF ui = "dom" THEN <<0, 0>> ELSE NoMouse
    /\ call = [k \in Tokens |-> "none"]
    /\ via = [k \in Tokens |-> "none"]
    /\ fresh = {}
    /\ shown = <<>>
    /\ burst = TRUE
    /\ busy = FALSE
    /\ activeJobId = NoJob
    /\ processStatus = ""
    /\ startCall = [s \in JobIds |-> "none"]
    /\ job = [j \in JobIds |-> "none"]
    /\ evQueue = <<>>
    /\ evSeen = {}
    /\ cancelSent = {}
    /\ retired = {}
    /\ consumed = {}
    /\ PagesInit
    /\ zoom = InitialZoom
    /\ panX = InitialPan
    /\ panY = InitialPan
    /\ viewSteps = 0
    /\ clamped = FALSE

\* The session is followed up to the bounds.
CoordinationInit ==
    /\ ReadyInit
    /\ reqCap = MaxReq
    /\ jobCap = MaxJobs

\* The viewport of a new viewer.
Init ==
    /\ CoordinationInit
    /\ zoom = InitialZoom
    /\ panX = InitialPan
    /\ panY = InitialPan
    /\ viewSteps = 0
    /\ clamped = FALSE

----
\* Frame Request Coordinator

\* Whether a backend answer has arrived for some issued request.
SomeAnswered == \E k \in Tokens : call[k] \notin {"none", "awaitInvoke"}

\* A faulty variant of requestFrame: after the first request the counter is
\* read without being incremented.
RequestFrameReusesToken(who) ==
    /\ requestToken < reqCap
    /\ requestToken' = IF requestToken = 0 THEN 1 ELSE requestToken
    /\ request' = axis'
    /\ call' = [call EXCEPT ![requestToken'] = "awaitInvoke"]
    /\ via' = [via EXCEPT ![requestToken'] = who]
    /\ burst' = (burst /\ ~SomeAnswered)
    /\ UNCHANGED <<frame, frameImage, histogram, fresh, shown>>

\* requestFrame up to its first await: take the next token and call the backend
\* with the axis position as it is when the call is made (the caller's
\* assignment to the axis precedes the call).
\* who is "slider" (an axis change) or "refresh" (handleOpEvent).
RequestFrameIssue(who) ==
    /\ requestToken < reqCap
    /\ requestToken' = requestToken + 1
    /\ request' = axis'
    /\ call' = [call EXCEPT ![requestToken + 1] = "awaitInvoke"]
    /\ via' = [via EXCEPT ![requestToken + 1] = who]
    /\ burst' = (burst /\ ~SomeAnswered)
    /\ UNCHANGED <<frame, frameImage, histogram, fresh, shown>>

\* A faulty variant of the slider listener: a move back to position 0 sets
\* the axis and issues no request.
SliderInputSkipsZero(a, v) ==
    /\ v \in 0..sliderMax[a]
    /\ v # axis[a]
    /\ axis' = [axis EXCEPT ![a] = v]
    /\ IF initStep = "loading" \/ v = 0
       THEN UNCHANGED <<frameVars, skipNext>>
       ELSE IF ui = "react" /\ skipNext
       THEN /\ skipNext' = FALSE
            /\ UNCHANGED frameVars
       ELSE /\ RequestFrameIssue("slider")
            /\ statusBar' = IF ui = "dom" THEN "Rendering" ELSE statusBar
            /\ UNCHANGED skipNext
    /\ UNCHANGED <<ui, capVars, pageVars, initStep, summary, sliderMax, viewVars, jobVars, envVars>>

\* The input listener of axis slider a (DOM viewer), and the onChange of the
\* slider followed by the frame-request effect (React viewer): the slider
\* moved to position v.  A range input reports a position between its min 0
\* and its max, and only when the position changed.  requestFrame of the DOM
\* viewer returns at once while state.context is null.  The React effect of
\* viewer_init has run before a slider can move (its max is 0 before, and a
\* pending effect is flushed before the next input event is handled).  The
\* frame-request effect of the React viewer returns without a request when
\* it finds the skip flag raised, and lowers it.
SliderInput(a, v) ==
    /\ v \in 0..sliderMax[a]
    /\ v # axis[a]
    /\ ui = "react" => initStep = "ready"
    /\ axis' = [axis EXCEPT ![a] = v]
    /\ IF initStep = "loading"
       THEN UNCHANGED <<frameVars, skipNext>>
       ELSE IF ui = "react" /\ skipNext
       THEN /\ skipNext' = FALSE
            /\ UNCHANGED frameVars
       ELSE /\ RequestFrameIssue("slider")
            /\ statusBar' = IF ui = "dom" THEN "Rendering" ELSE statusBar
            /\ UNCHANGED skipNext
    /\ UNCHANGED <<ui, capVars, pageVars, initStep, summary, sliderMax, viewVars, jobVars, envVars>>

\* A faulty variant of the clamp of configureSliders: the position is kept.
ConfiguredPositionKept(value, max) == value

\* clamp(state.z, 0, Number(ids.zSlider.max)) in configureSliders.
ConfiguredPosition(value, max) ==
    IF value < 0 THEN 0 ELSE IF value > max THEN max ELSE value

\* The continuation of init() after `await invoke("viewer_init")` up to its
\* next await (DOM viewer): the context is set and configureSliders runs.
\* The .then callback of viewer_init followed by the render (React viewer):
\* the default frame is set, the skip flag is raised, the sliders get their
\* max.
ViewerInitDone(sum) ==
    /\ initStep = "loading"
    /\ initStep' = "configured"
    /\ summary' = sum
    /\ sliderMax' = [a \in Axes |-> LastPosition(sum, a)]
    /\ IF ui = "dom"
       THEN /\ axis' = [a \in Axes |-> ConfiguredPosition(axis[a], LastPosition(sum, a))]
            /\ UNCHANGED <<frame, frameImage, histogram, skipNext>>
       ELSE /\ frame' = DefaultFrame
            /\ skipNext' = TRUE
            /\ UNCHANGED <<frameImage, histogram, axis>>
    /\ UNCHANGED <<requestToken, request, statusBar, call, via, fresh, shown, burst>>
    /\ UNCHANGED <<ui, capVars, pageVars, viewVars, jobVars, envVars>>

\* A faulty variant of the effect run that follows viewer_init: the React
\* viewer leaves the skip flag raised.
InitCompleteKeepsFlag ==
    /\ initStep = "configured"
    /\ initStep' = "ready"
    /\ IF ui = "dom"
       THEN /\ frame' = DefaultFrame
            /\ frameImage' = DefaultFrame
            /\ histogram' = DefaultFrame
            /\ statusBar' = Readout(busy)
            /\ UNCHANGED skipNext
       ELSE /\ skipNext
            /\ skipNext' = TRUE
            /\ frameImage' = frame
            /\ histogram' = frame
            /\ UNCHANGED <<frame, statusBar>>
    /\ UNCHANGED <<requestToken, request, call, via, fresh, shown, burst>>
    /\ UNCHANGED <<ui, capVars, pageVars, summary, sliderMax, axis, viewVars, jobVars, envVars>>

\* `await applyFrame(initPayload.default_frame)` and the rest of init() (DOM
\* viewer): the default frame is displayed.  The effects run after the
\* render that follows setViewerInit (React viewer): the frame-request effect
\* lowers the skip flag and issues no request, and the frame effect builds
\* the image of the default frame and draws its histogram.
InitComplete ==
    /\ initStep = "configured"
    /\ initStep' = "ready"
    /\ IF ui = "dom"
       THEN /\ frame' = DefaultFrame
            /\ frameImage' = DefaultFrame
            /\ histogram' = DefaultFrame
            /\ statusBar' = Readout(busy)
            /\ UNCHANGED skipNext
       ELSE /\ skipNext
            /\ skipNext' = FALSE
            /\ frameImage' = frame
            /\ histogram' = frame
            /\ UNCHANGED <<frame, statusBar>>
    /\ UNCHANGED <<requestToken, request, call, via, fresh, shown, burst>>
    /\ UNCHANGED <<ui, capVars, pageVars, summary, sliderMax, axis, viewVars, jobVars, envVars>>

\* Faulty variants of the token test: the test left out, and the test inverted.
TokenAlwaysCurrent(k) == TRUE
TokenNeverCurrent(k) == k # requestToken

\* The token test of requestFrame after the backend answered.
TokenIsCurrent(k) == k = requestToken

\* What becomes of an error thrown out of the DOM requestFrame for token k:
\* the slider listeners await it without a catch; handleOpEvent attaches
\* .catch(error => setStatus(String(error))).
DomThrown(k) == IF via[k] = "refresh" THEN "Error" ELSE statusBar

\* requestFrame after `await invoke(...)` in the DOM viewer: the backend
\* answered request k.  A rejected call throws before the token test.
DomFrameResponse(k, ok) ==
    /\ ui = "dom"
    /\ call[k] = "awaitInvoke"
    /\ fresh' = IF k = requestToken THEN fresh \cup {k} ELSE fresh
    /\ IF ~ok
       THEN /\ call' = [call EXCEPT ![k] = "threw"]
            /\ statusBar' = DomThrown(k)
       ELSE IF ~TokenIsCurrent(k)
       THEN /\ call' = [call EXCEPT ![k] = "stale"]
            /\ statusBar' = statusBar
       ELSE /\ call' = [call EXCEPT ![k] = "awaitDecode"]
            /\ statusBar' = statusBar
    /\ UNCHANGED <<ui, capVars, pageVars, axisVars, viewVars, requestToken, request, frame, frameImage, histogram, shown, via, burst, jobVars, envVars>>

\* requestFrame after `await tauriInvoke(...)` in the React viewer: setFrame
\* on a current token, return on a stale one, setStatus in the catch.  The
\* frame effect that follows setFrame builds the image and draws the
\* histogram.
ReactFrameResponse(k, ok) ==
    /\ ui = "react"
    /\ call[k] = "awaitInvoke"
    /\ fresh' = IF k = requestToken THEN fresh \cup {k} ELSE fresh
    /\ IF ~ok
       THEN /\ call' = [call EXCEPT ![k] = "threw"]
            /\ statusBar' = "Error"
            /\ UNCHANGED <<frame, frameImage, histogram, shown>>
       ELSE IF ~TokenIsCurrent(k)
       THEN /\ call' = [call EXCEPT ![k] = "stale"]
            /\ UNCHANGED <<frame, frameImage, histogram, shown, statusBar>>
       ELSE /\ call' = [call EXCEPT ![k] = "applied"]
            /\ frame' = k
            /\ frameImage' = k
            /\ histogram' = k
            /\ shown' = Append(shown, k)
            /\ statusBar' = "Rendered"
    /\ UNCHANGED <<ui, capVars, pageVars, axisVars, viewVars, requestToken, request, via, burst, jobVars, envVars>>

\* A faulty variant of applyFrame: state.frame is assigned before the image
\* is decoded.
DecodeDoneAssignsFirst(k, ok) ==
    /\ ui = "dom"
    /\ call[k] = "awaitDecode"
    /\ frame' = k
    /\ IF ok
       THEN /\ call' = [call EXCEPT ![k] = "applied"]
            /\ frameImage' = k
            /\ histogram' = k
            /\ shown' = Append(shown, k)
            /\ statusBar' = Readout(busy)
       ELSE /\ call' = [call EXCEPT ![k] = "decodeThrew"]
            /\ statusBar' = DomThrown(k)
            /\ UNCHANGED <<frameImage, histogram, shown>>
    /\ UNCHANGED <<ui, capVars, pageVars, axisVars, viewVars, requestToken, request, via, fresh, burst, jobVars, envVars>>

\* applyFrame after `await loadFrameImage(...)` (DOM viewer): the image of
\* request k decoded, or failed to decode.  The assignments to state.frame
\* and state.frameImage and drawHistogram follow the await in one block.
DecodeDone(k, ok) ==
    /\ ui = "dom"
    /\ call[k] = "awaitDecode"
    /\ IF ok
       THEN /\ call' = [call EXCEPT ![k] = "applied"]
            /\ frame' = k
            /\ frameImage' = k
            /\ histogram' = k
            /\ shown' = Append(shown, k)
            /\ statusBar' = Readout(busy)
       ELSE /\ call' = [call EXCEPT ![k] = "decodeThrew"]
            /\ statusBar' = DomThrown(k)
            /\ UNCHANGED <<frame, frameImage, histogram, shown>>
    /\ UNCHANGED <<ui, capVars, pageVars, axisVars, viewVars, requestToken, request, via, fresh, burst, jobVars, envVars>>

----
\* Job Lifecycle Manager (DOM viewer)

\* A faulty variant of the guard: it looks at the tracked job instead of the flag.
StartGuardOnJobId == activeJobId # NoJob

\* Job j is running at the backend.
Running(j) == job[j] = "running"

\* The guard of startOperation.
AlreadyRunning == busy

\* startOperation up to its await.  paramsOk: whether JSON.parse accepts the
\* parameter text (parseProcessParams throws otherwise, and the click
\* listener reports the error).
StartOperation(paramsOk) ==
    /\ ui = "dom"
    /\ IF AlreadyRunning
       THEN /\ processStatus' = "AlreadyRunning"
            /\ UNCHANGED <<busy, activeJobId, statusBar, startCall>>
       ELSE IF ~paramsOk
       THEN /\ processStatus' = "Error"
            /\ UNCHANGED <<busy, activeJobId, statusBar, startCall>>
       ELSE /\ \E s \in 1..jobCap :
                 /\ startCall[s] = "none"
                 /\ \A r \in JobIds : r < s => startCall[r] # "none"
                 /\ startCall' = [startCall EXCEPT ![s] = "sent"]
            /\ busy' = TRUE
            /\ processStatus' = "Running"
            /\ statusBar' = Readout(TRUE)
            /\ UNCHANGED activeJobId
    /\ UNCHANGED <<ui, capVars, pageVars, axisVars, viewVars, requestToken, request, frame, frameImage, histogram, call, via, fresh, shown, burst>>
    /\ UNCHANGED <<job, evQueue, evSeen, cancelSent, retired, consumed>>

\* The backend processes the s-th viewer_start_op: it creates job s and
\* answers with its ticket, or rejects the request.
BackendStart(s, accept) ==
    /\ startCall[s] = "sent"
    /\ IF accept
       THEN /\ startCall' = [startCall EXCEPT ![s] = "ackPending"]
            /\ job' = [job EXCEPT ![s] = "running"]
       ELSE /\ startCall' = [startCall EXCEPT ![s] = "errPending"]
            /\ UNCHANGED job
    /\ UNCHANGED <<ui, capVars, pageVars, axisVars, viewVars, frameVars, jobVars>>
    /\ UNCHANGED <<evQueue, evSeen, cancelSent, retired, consumed>>

\* A faulty variant of the acknowledgement: the ticket is tracked whether or
\* not the running flag is still set.
StartAckAlwaysTracks(s) ==
    /\ startCall[s] = "ackPending"
    /\ startCall' = [startCall EXCEPT ![s] = "acked"]
    /\ activeJobId' = s
    /\ UNCHANGED <<busy, processStatus>>
    /\ UNCHANGED <<ui, capVars, pageVars, axisVars, viewVars, frameVars>>
    /\ UNCHANGED <<job, evQueue, evSeen, cancelSent, retired, consumed>>

\* startOperation after `await invoke("viewer_start_op")` returned a ticket.
StartAck(s) ==
    /\ startCall[s] = "ackPending"
    /\ startCall' = [startCall EXCEPT ![s] = "acked"]
    /\ activeJobId' = IF busy THEN s ELSE NoJob
    /\ UNCHANGED <<busy, processStatus>>
    /\ UNCHANGED <<ui, capVars, pageVars, axisVars, viewVars, frameVars>>
    /\ UNCHANGED <<job, evQueue, evSeen, cancelSent, retired, consumed>>

\* A faulty variant of the catch: it also puts the default frame back.
StartRejectedResetsFrame(s) ==
    /\ startCall[s] = "errPending"
    /\ startCall' = [startCall EXCEPT ![s] = "rejected"]
    /\ busy' = FALSE
    /\ activeJobId' = NoJob
    /\ processStatus' = "Error"
    /\ statusBar' = Readout(FALSE)
    /\ frame' = DefaultFrame
    /\ frameImage' = DefaultFrame
    /\ histogram' = DefaultFrame
    /\ UNCHANGED <<ui, capVars, pageVars, axisVars, viewVars, requestToken, request, call, via, fresh, shown, burst>>
    /\ UNCHANGED <<job, evQueue, evSeen, cancelSent, retired, consumed>>

\* startOperation's catch: the start request was rejected.
StartRejected(s) ==
    /\ startCall[s] = "errPending"
    /\ startCall' = [startCall EXCEPT ![s] = "rejected"]
    /\ busy' = FALSE
    /\ activeJobId' = NoJob
    /\ processStatus' = "Error"
    /\ statusBar' = Readout(FALSE)
    /\ UNCHANGED <<ui, capVars, pageVars, axisVars, viewVars, requestToken, request, frame, frameImage, histogram, call, via, fresh, shown, burst>>
    /\ UNCHANGED <<job, evQueue, evSeen, cancelSent, retired, consumed>>

\* A faulty variant of cancelOperation: the job is taken to be cancelled as
\* soon as the cancellation is requested.
CancelOperationFreesSlot ==
    /\ ui = "dom"
    /\ IF activeJobId = NoJob
       THEN /\ processStatus' = "NoRunningJob"
            /\ UNCHANGED <<cancelSent, busy, activeJobId>>
       ELSE /\ cancelSent' = cancelSent \cup {activeJobId}
            /\ processStatus' = "Cancelled"
            /\ busy' = FALSE
            /\ activeJobId' = NoJob
    /\ UNCHANGED <<ui, capVars, pageVars, axisVars, viewVars, frameVars>>
    /\ UNCHANGED <<startCall, job, evQueue, evSeen, retired, consumed>>

\* cancelOperation up to its await.
CancelOperation ==
    /\ ui = "dom"
    /\ IF activeJobId = NoJob
       THEN /\ processStatus' = "NoRunningJob"
            /\ UNCHANGED cancelSent
       ELSE /\ cancelSent' = cancelSent \cup {activeJobId}
            /\ UNCHANGED processStatus
    /\ UNCHANGED <<busy, activeJobId>>
    /\ UNCHANGED <<ui, capVars, pageVars, axisVars, viewVars, frameVars>>
    /\ UNCHANGED <<startCall, job, evQueue, evSeen, retired, consumed>>

\* The backend processes a cancellation: a running job becomes cancelled and
\* its terminal event is emitted; a job that already finished stays as it is.
\* The call is acknowledged, which cancelOperation lets pass.
BackendCancel(j) ==
    /\ j \in cancelSent
    /\ cancelSent' = cancelSent \ {j}
    /\ IF Running(j)
       THEN /\ job' = [job EXCEPT ![j] = "cancelled"]
            /\ evQueue' = Append(evQueue, j)
       ELSE UNCHANGED <<job, evQueue>>
    /\ UNCHANGED <<ui, capVars, pageVars, axisVars, viewVars, frameVars, jobVars>>
    /\ UNCHANGED <<startCall, evSeen, retired, consumed>>

\* cancelOperation's catch: the backend answers the cancellation of a job that
\* is not running with an error, and the error text becomes the process status.
CancelFailed(j) ==
    /\ j \in cancelSent
    /\ ~Running(j)
    /\ cancelSent' = cancelSent \ {j}
    /\ processStatus' = "Error"
    /\ UNCHANGED <<busy, activeJobId>>
    /\ UNCHANGED <<ui, capVars, pageVars, axisVars, viewVars, frameVars>>
    /\ UNCHANGED <<startCall, job, evQueue, evSeen, retired, consumed>>

\* A running job ends at the backend, which emits its terminal event.
BackendFinish(j, st) ==
    /\ job[j] = "running"
    /\ job' = [job EXCEPT ![j] = st]
    /\ evQueue' = Append(evQueue, j)
    /\ UNCHANGED <<ui, capVars, pageVars, axisVars, viewVars, frameVars, jobVars>>
    /\ UNCHANGED <<startCall, evSeen, cancelSent, retired, consumed>>

----
\* Event Dispatch Filter (DOM viewer)

\* A faulty variant of the filter: the comparison of job ids inverted.
DiscardsMatching(payload) ==
    \/ payload.job_id = NoJob
    \/ activeJobId # NoJob /\ payload.job_id = activeJobId

\* The two early returns of handleOpEvent.
Discards(payload) ==
    \/ payload.job_id = NoJob
    \/ activeJobId # NoJob /\ payload.job_id # activeJobId

\* A faulty variant of handleOpEvent: an event that is not terminal ends the
\* job as well.
HandleOpEventEndsOnAny(payload) ==
    IF Discards(payload)
    THEN UNCHANGED <<frameVars, jobVars>>
    ELSE IF payload.status = "completed"
    THEN /\ activeJobId' = NoJob
         /\ busy' = FALSE
         /\ processStatus' = "Completed"
         /\ RequestFrameIssue("refresh")
         /\ statusBar' = Readout(FALSE)
    ELSE /\ activeJobId' = NoJob
         /\ busy' = FALSE
         /\ processStatus' = IF payload.status = "failed" THEN "Failed" ELSE "Cancelled"
         /\ statusBar' = Readout(FALSE)
         /\ UNCHANGED <<requestToken, request, frame, frameImage, histogram, call, via, fresh, shown, burst>>

\* handleOpEvent(payload): its effect on the viewer's state.
HandleOpEvent(payload) ==
    IF Discards(payload)
    THEN UNCHANGED <<frameVars, jobVars>>
    ELSE IF payload.status = "completed"
    THEN /\ activeJobId' = NoJob
         /\ busy' = FALSE
         /\ processStatus' = "Completed"
         /\ RequestFrameIssue("refresh")
         /\ statusBar' = Readout(FALSE)
    ELSE IF payload.status \in {"failed", "cancelled"}
    THEN /\ activeJobId' = NoJob
         /\ busy' = FALSE
         /\ processStatus' = IF payload.status = "failed" THEN "Failed" ELSE "Cancelled"
         /\ statusBar' = Readout(FALSE)
         /\ UNCHANGED <<requestToken, request, frame, frameImage, histogram, call, via, fresh, shown, burst>>
    ELSE /\ statusBar' = Readout(busy)
         /\ UNCHANGED <<requestToken, request, frame, frameImage, histogram, call, via, fresh, shown, burst, jobVars>>

\* The retired jobs after payload is handled.
Retire(payload) ==
    IF /\ payload.job_id # NoJob
       /\ payload.job_id = activeJobId
       /\ payload.status \in Terminal
    THEN retired \cup {payload.job_id}
    ELSE retired

\* The jobs with a consumed terminal event after payload is handled.
Consume(payload) ==
    IF ~Discards(payload) /\ payload.status \in Terminal
    THEN consumed \cup {payload.job_id}
    ELSE consumed

EventOf(j) == [job_id |-> j, status |-> job[j]]

\* The terminal event at the head of the stream reaches the listener.
DeliverEvent ==
    /\ ui = "dom"
    /\ evQueue # <<>>
    /\ UNCHANGED <<ui, capVars, pageVars, axisVars, viewVars, startCall, job, cancelSent>>
    /\ HandleOpEvent(EventOf(Head(evQueue)))
    /\ retired' = Retire(EventOf(Head(evQueue)))
    /\ consumed' = Consume(EventOf(Head(evQueue)))
    /\ evQueue' = Tail(evQueue)
    /\ evSeen' = evSeen \cup {Head(evQueue)}

\* At-least-once delivery: a terminal event already delivered arrives again.
RedeliverEvent(j) ==
    /\ ui = "dom"
    /\ j \in evSeen
    /\ UNCHANGED <<ui, capVars, pageVars, axisVars, viewVars, startCall, job, evQueue, evSeen, cancelSent>>
    /\ HandleOpEvent(EventOf(j))
    /\ retired' = Retire(EventOf(j))
    /\ consumed' = Consume(EventOf(j))

\* The payloads that belong to no job of this session: a payload without
\* job_id, and the events of another window's job, with any status.
ForeignPayloads ==
    {[job_id |-> NoJob, status |-> "completed"]}
        \cup {[job_id |-> ForeignJob, status |-> st] : st \in Statuses}

\* An event that belongs to no job of this session reaches the listener.
ForeignEvent(payload) ==
    /\ ui = "dom"
    /\ UNCHANGED <<ui, capVars, pageVars, axisVars, viewVars, envVars>>
    /\ HandleOpEvent(payload)

\* A non-terminal event of a running job.
RunningEvent(j) ==
    /\ ui = "dom"
    /\ job[j] = "running"
    /\ UNCHANGED <<ui, capVars, pageVars, axisVars, viewVars, envVars>>
    /\ HandleOpEvent([job_id |-> j, status |-> "running"])

----
\* Viewport Transform

\* A faulty variant of clamp: the value is passed through.
ClampNothing(value, min, max) == value

\* clamp(value, min, max) / Math.max(0.1, Math.min(64, value))
Clamp(value, min, max) == RatMax(min, RatMin(max, value))

\* A faulty variant of the pan update: the pan is left where it was.
KeptPan(local, pan, nextZoom, previousZoom) == pan

\* local - ((local - pan) * nextZoom) / previousZoom.  Over exact fractions
\* the product and the quotient may be taken in either order; the quotient of
\* the two zooms is taken first, which keeps the numbers small.
AnchoredPan(local, pan, nextZoom, previousZoom) ==
    RatSub(RatInt(local),
           RatMul(RatSub(RatInt(local), pan), RatDiv(nextZoom, previousZoom)))

\* (local - pan) / zoom: the data-space coordinate under a canvas coordinate.
DataCoordinate(local, pan, z) == RatDiv(RatSub(RatInt(local), pan), z)

\* The canvas coordinate at which data coordinate x is drawn under
\* setTransform(zoom, 0, 0, zoom, panX, panY): x * zoom + pan, each operation
\* rounded.
ToScreen(x, pan, z) == Fl(RatAdd(Fl(RatMul(RatInt(x), Fl(z))), Fl(pan)))

\* A faulty variant of the data coordinate: the pan is not subtracted.
ToImageIgnoresPan(local, pan, z) == Floor(Fl(RatDiv(local, Fl(z))))

\* Math.floor((local - pan) / zoom), each operation rounded.
ToImage(local, pan, z) == Floor(Fl(RatDiv(Fl(RatSub(local, Fl(pan))), Fl(z))))

\* A data pixel mapped to the canvas and back.
RoundTrip(x, pan, z) == ToImage(ToScreen(x, pan, z), pan, z)

\* frame.values[offset] / the sample at pixels_u8[index] of frame f.
Sample(f, offset) == <<f, offset>>

\* A faulty variant of the hover readout: the column is not tested against
\* the width of the frame.
HoverAtAnyColumn(cx, cy, px, py, z) ==
    IF frame = NoFrame THEN NoHover
    ELSE LET imageX == ToImage(RatInt(cx), px, z)
             imageY == ToImage(RatInt(cy), py, z)
         IN  IF imageX < 0 \/ imageY < 0 \/ imageY >= FrameHeight
             THEN NoHover
             ELSE [x |-> imageX, y |-> imageY,
                   value |-> Sample(frame, imageY * FrameWidth + imageX)]

\* toImageCoordinates and the hover assignment of the mousemove listener /
\* updateHover: the readout for a pointer at canvas coordinate (cx, cy)
\* under pan (px, py) and zoom z.
HoverAt(cx, cy, px, py, z) ==
    IF frame = NoFrame THEN NoHover
    ELSE LET imageX == ToImage(RatInt(cx), px, z)
             imageY == ToImage(RatInt(cy), py, z)
         IN  IF imageX < 0 \/ imageY < 0 \/ imageX >= FrameWidth \/ imageY >= FrameHeight
             THEN NoHover
             ELSE [x |-> imageX, y |-> imageY,
                   value |-> Sample(frame, imageY * FrameWidth + imageX)]

\* Canvas coordinates of the pointer (clientX - rect.left, clientY - rect.top).
PointerSamples == {<<0, 0>>, <<7, 30>>, <<30, 7>>}

\* The wheel listener of the canvas: zoom by one step about the pointer.
\* zoomIn is event.deltaY < 0.  The DOM viewer ends with updateStatusBar().
WheelZoom(localX, localY, zoomIn) ==
    /\ viewSteps < MaxViewSteps
    /\ LET previousZoom == zoom
           stepped == IF zoomIn THEN RatMul(previousZoom, WheelStep)
                                ELSE RatDiv(previousZoom, WheelStep)
           nextZoom == Clamp(stepped, ZoomMin, ZoomMax)
       IN  /\ panX' = AnchoredPan(localX, panX, nextZoom, previousZoom)
           /\ panY' = AnchoredPan(localY, panY, nextZoom, previousZoom)
           /\ zoom' = nextZoom
           /\ clamped' = (stepped # RatMax(ZoomMin, RatMin(ZoomMax, stepped)))
    /\ viewSteps' = viewSteps + 1
    /\ statusBar' = IF ui = "dom" THEN Readout(busy) ELSE statusBar
    /\ UNCHANGED <<ui, capVars, pageVars, axisVars, requestToken, request, frame, frameImage, histogram, call, via, fresh, shown, burst>>
    /\ UNCHANGED <<pointerVars, jobVars, envVars>>

\* executeImplementedCommand("image.zoom.in") of the React viewer.
MenuZoomIn ==
    /\ ui = "react"
    /\ viewSteps < MaxViewSteps
    /\ zoom' = RatMin(ZoomMax, RatMul(zoom, MenuStep))
    /\ clamped' = ~RatLeq(RatMul(zoom, MenuStep), ZoomMax)
    /\ viewSteps' = viewSteps + 1
    /\ UNCHANGED <<panX, panY, pointerVars>>
    /\ UNCHANGED <<ui, capVars, pageVars, axisVars, frameVars, jobVars, envVars>>

\* executeImplementedCommand("image.zoom.out") of the React viewer.
MenuZoomOut ==
    /\ ui = "react"
    /\ viewSteps < MaxViewSteps
    /\ zoom' = RatMax(ZoomMin, RatDiv(zoom, MenuStep))
    /\ clamped' = ~RatLeq(ZoomMin, RatDiv(zoom, MenuStep))
    /\ viewSteps' = viewSteps + 1
    /\ UNCHANGED <<panX, panY, pointerVars>>
    /\ UNCHANGED <<ui, capVars, pageVars, axisVars, frameVars, jobVars, envVars>>

\* A faulty variant of the view reset: it also requests a frame.
ResetViewRequestsFrame ==
    /\ viewSteps < MaxViewSteps
    /\ zoom' = InitialZoom
    /\ panX' = InitialPan
    /\ panY' = InitialPan
    /\ clamped' = FALSE
    /\ viewSteps' = viewSteps + 1
    /\ UNCHANGED <<ui, capVars, pageVars, axisVars, pointerVars, jobVars, envVars>>
    /\ RequestFrameIssue("slider")
    /\ statusBar' = IF ui = "dom" THEN Readout(busy) ELSE statusBar

\* The resetView button / executeImplementedCommand("image.zoom.reset").
ResetView ==
    /\ viewSteps < MaxViewSteps
    /\ zoom' = InitialZoom
    /\ panX' = InitialPan
    /\ panY' = InitialPan
    /\ clamped' = FALSE
    /\ viewSteps' = viewSteps + 1
    /\ statusBar' = IF ui = "dom" THEN Readout(busy) ELSE statusBar
    /\ UNCHANGED <<ui, capVars, pageVars, axisVars, requestToken, request, frame, frameImage, histogram, call, via, fresh, shown, burst>>
    /\ UNCHANGED <<pointerVars, jobVars, envVars>>

\* Canvas coordinates of the pointer for the mouse listeners: on the frame,
\* right of it and left of it at zoom 1 with the initial pan.
MouseSamples == {<<20, 19>>, <<21, 19>>, <<17, 18>>}

\* Canvas coordinates at which a drag starts.
DragStarts == {<<20, 19>>}

\* The mousedown listener of the canvas.
MouseDown(cx, cy) ==
    /\ dragging' = TRUE
    /\ lastMouse' = <<cx, cy>>
    /\ UNCHANGED <<zoom, panX, panY, viewSteps, clamped, hover>>
    /\ UNCHANGED <<ui, capVars, pageVars, axisVars, frameVars, jobVars, envVars>>

\* The mouseup listener (of the window in the DOM viewer).
MouseUp ==
    /\ dragging' = FALSE
    /\ lastMouse' = IF ui = "dom" THEN lastMouse ELSE NoMouse
    /\ UNCHANGED <<zoom, panX, panY, viewSteps, clamped, hover>>
    /\ UNCHANGED <<ui, capVars, pageVars, axisVars, frameVars, jobVars, envVars>>

\* Whether the mousemove listener drags the image.
Drags == dragging /\ lastMouse # NoMouse

\* The mousemove listener of the canvas: a drag moves the pan by the distance
\* the pointer travelled, then the hover readout is computed.  The DOM viewer
\* reads the pan it has just written; updateHover of the React viewer reads
\* the pan of the render the listener belongs to.
MouseMove(cx, cy) ==
    /\ Drags => viewSteps < MaxViewSteps
    /\ LET nextPanX == IF Drags THEN RatAdd(panX, RatInt(cx - lastMouse[1])) ELSE panX
           nextPanY == IF Drags THEN RatAdd(panY, RatInt(cy - lastMouse[2])) ELSE panY
       IN  /\ panX' = nextPanX
           /\ panY' = nextPanY
           /\ hover' = IF ui = "dom" THEN HoverAt(cx, cy, nextPanX, nextPanY, zoom)
                                     ELSE HoverAt(cx, cy, panX, panY, zoom)
    /\ lastMouse' = IF Drags THEN <<cx, cy>> ELSE lastMouse
    /\ viewSteps' = IF Drags THEN viewSteps + 1 ELSE viewSteps
    /\ statusBar' = IF ui = "dom" THEN Readout(busy) ELSE statusBar
    /\ UNCHANGED <<zoom, clamped, dragging>>
    /\ UNCHANGED <<ui, capVars, pageVars, axisVars, requestToken, request, frame, frameImage, histogram, call, via, fresh, shown, burst>>
    /\ UNCHANGED <<jobVars, envVars>>

\* The mouseleave listener of the canvas; the React one ends a drag as well.
MouseLeave ==
    /\ hover' = NoHover
    /\ dragging' = IF ui = "dom" THEN dragging ELSE FALSE
    /\ lastMouse' = IF ui = "dom" THEN lastMouse ELSE NoMouse
    /\ statusBar' = IF ui = "dom" THEN Readout(busy) ELSE statusBar
    /\ UNCHANGED <<zoom, panX, panY, viewSteps, clamped>>
    /\ UNCHANGED <<ui, capVars, pageVars, axisVars, requestToken, request, frame, frameImage, histogram, call, via, fresh, shown, burst>>
    /\ UNCHANGED <<jobVars, envVars>>

\* Zoom values a viewer reaches from zoom 1.  With the wheel alone: 1, one
\* step up and down, the two limits, and one step inside each limit.  With
\* the menu commands of the React viewer also 64 / 1.2 and 0.1 * 1.2, and one
\* wheel step from these towards the limit, from where the next wheel step
\* overshoots the limit by less than a whole step.
ZoomSamples ==
    {InitialZoom, Rat(28, 25), Rat(25, 28), ZoomMax, ZoomMin, Rat(400, 7), Rat(14, 125)}
        \cup (IF ui = "react"
              THEN {Rat(160, 3), Rat(896, 15), Rat(3, 25), Rat(3, 28)}
              ELSE {})

\* Pan values: the initial one, and whole numbers (a wheel step at the
\* canvas coordinate equal to the pan leaves the pan alone, and a drag moves
\* it by whole pixels).
PanSamples == {InitialPan, RatInt(0), RatInt(-5)}

\* A viewer whose viewport is one of the sampled ones.
ViewportInit ==
    /\ CoordinationInit
    /\ zoom \in ZoomSamples
    /\ panX \in PanSamples
    /\ panY \in PanSamples
    /\ viewSteps = 0
    /\ clamped = FALSE

\* A viewer under the pointer: one that shows its default frame, at zoom 1 or
\* at a zoom limit, or one that is still
\* loading (the canvas listeners are bound before viewer_init is called).
PointerInit ==
    \/ /\ CoordinationInit
       /\ zoom \in {InitialZoom, ZoomMin, ZoomMax}
       /\ panX = InitialPan
       /\ panY = InitialPan
       /\ viewSteps = 0
       /\ clamped = FALSE
    \/ LoadingInit

----
\* The frame side: axis changes, backend answers, decodes, and events of
\* other sessions (a `completed` one passes the filter while no job is
\* tracked and issues a refresh request).
FrameNext ==
    \/ \E a \in Axes, v \in 0..PreInitMax : SliderInput(a, v)
    \/ \E k \in Tokens, ok \in BOOLEAN : DomFrameResponse(k, ok)
    \/ \E k \in Tokens, ok \in BOOLEAN : ReactFrameResponse(k, ok)
    \/ \E k \in Tokens, ok \in BOOLEAN : DecodeDone(k, ok)
    \/ \E payload \in ForeignPayloads : ForeignEvent(payload)

\* The job side of the DOM viewer; the refresh requests it issues stay
\* unanswered.
JobNext ==
    \/ \E paramsOk \in BOOLEAN : StartOperation(paramsOk)
    \/ \E s \in JobIds, accept \in BOOLEAN : BackendStart(s, accept)
    \/ \E s \in JobIds : StartAck(s)
    \/ \E s \in JobIds : StartRejected(s)
    \/ CancelOperation
    \/ \E j \in JobIds : BackendCancel(j)
    \/ \E j \in JobIds : CancelFailed(j)
    \/ \E j \in JobIds, st \in {"completed", "failed"} : BackendFinish(j, st)
    \/ DeliverEvent
    \/ \E j \in JobIds : RedeliverEvent(j)
    \/ \E payload \in ForeignPayloads : ForeignEvent(payload)
    \/ \E j \in JobIds : RunningEvent(j)

\* The viewport operations.
ViewNext ==
    \/ \E pt \in PointerSamples, zoomIn \in BOOLEAN : WheelZoom(pt[1], pt[2], zoomIn)
    \/ MenuZoomIn
    \/ MenuZoomOut
    \/ ResetView

\* A viewer from the start of its initialisation on: slider moves before and
\* after viewer_init answered, and the answers to the frame requests.
AxisNext ==
    \/ \E sum \in Summaries : ViewerInitDone(sum)
    \/ InitComplete
    \/ \E a \in Axes, v \in 0..PreInitMax : SliderInput(a, v)
    \/ \E k \in Tokens, ok \in BOOLEAN : DomFrameResponse(k, ok)
    \/ \E k \in Tokens, ok \in BOOLEAN : ReactFrameResponse(k, ok)
    \/ \E k \in Tokens, ok \in BOOLEAN : DecodeDone(k, ok)

\* The viewport operations and the mouse listeners of the canvas.
PointerNext ==
    \/ ViewNext
    \/ \E pt \in DragStarts : MouseDown(pt[1], pt[2])
    \/ MouseUp
    \/ \E pt \in MouseSamples : MouseMove(pt[1], pt[2])
    \/ MouseLeave

\* The frame side and the mouse listeners of the canvas.
HoverNext ==
    \/ FrameNext
    \/ \E pt \in DragStarts : MouseDown(pt[1], pt[2])
    \/ MouseUp
    \/ \E pt \in MouseSamples : MouseMove(pt[1], pt[2])
    \/ MouseLeave

\* The control window: mounts, the subscription call, unmounts, events.
ControlNext ==
    \/ \E e \in Mounts : MountControl(e)
    \/ \E e \in Mounts, ok \in BOOLEAN : RuntimeListen(e, ok)
    \/ \E e \in Mounts : ListenResolved(e)
    \/ \E e \in Mounts : UnmountControl(e)
    \/ \E e \in Mounts, payload \in OpenResults : OpenResultEvent(e, payload)

\* The legacy UI: slider moves and the answers to the two calls of render().
LegacyNext ==
    \/ \E key \in Axes, v \in 0..LegacyMax : UpdateAxisFromSlider(key, v)
    \/ \E r \in 1..MaxRenders, ok \in BOOLEAN : RenderSliceDone(r, ok)
    \/ \E r \in 1..MaxRenders, ok \in BOOLEAN : RenderHistogramDone(r, ok)

\* The toast provider.
ToastNext ==
    \/ \E id \in ToastIds : ToastAdd(id)
    \/ \E id \in ToastIds : TimerFires(id)
    \/ \E id \in ToastIds : Dismiss(id)

Next == FrameNext \/ JobNext \/ PointerNext \/ AxisNext \/ ControlNext \/ LegacyNext \/ ToastNext

\* A new viewer whose frame requests and jobs are followed together.
CoordInit ==
    /\ ReadyInit
    /\ reqCap = CoordMaxReq
    /\ jobCap = CoordMaxJobs
    /\ zoom = InitialZoom
    /\ panX = InitialPan
    /\ panY = InitialPan
    /\ viewSteps = 0
    /\ clamped = FALSE

\* A new viewer whose frame requests are followed under the pointer.
HoverInit ==
    /\ ReadyInit
    /\ reqCap = HoverMaxReq
    /\ jobCap = MaxJobs
    /\ zoom = InitialZoom
    /\ panX = InitialPan
    /\ panY = InitialPan
    /\ viewSteps = 0
    /\ clamped = FALSE

\* Only the DOM viewer handles jobs.  Its refresh requests are followed up
\* to JobMaxReq.
JobInit ==
    /\ ReadyInit
    /\ ui = "dom"
    /\ reqCap = JobMaxReq
    /\ jobCap = MaxJobs
    /\ zoom = InitialZoom
    /\ panX = InitialPan
    /\ panY = InitialPan
    /\ viewSteps = 0
    /\ clamped = FALSE

FrameSpec == Init /\ [][FrameNext]_vars
JobSpec   == JobInit /\ [][JobNext]_vars
ViewSpec  == ViewportInit /\ [][ViewNext]_vars
AxisSpec  == LoadingInit /\ [][AxisNext]_vars
PointerSpec == PointerInit /\ [][PointerNext]_vars
CoordSpec == CoordInit /\ [][FrameNext \/ JobNext]_vars
HoverSpec == HoverInit /\ [][HoverNext]_vars

\* The pages besides the viewer run in windows of their own; the viewer
\* state stays as it starts.
PageInit == Init /\ ui = "react"
ControlSpec == PageInit /\ [][ControlNext]_vars
LegacySpec == PageInit /\ [][LegacyNext]_vars

\* A timeout that is armed fires.
ToastFairness == \A id \in ToastIds : WF_vars(TimerFires(id))
ToastSpec == PageInit /\ [][ToastNext]_vars /\ ToastFairness

\* The backend answers every start request and ends every job it started, and
\* every acknowledgement, rejection and emitted event reaches the viewer.
JobFairness ==
    /\ \A s \in JobIds :
        /\ WF_vars(\E accept \in BOOLEAN : BackendStart(s, accept))
        /\ WF_vars(StartAck(s))
        /\ WF_vars(StartRejected(s))
        /\ WF_vars(\E st \in {"completed", "failed"} : BackendFinish(s, st))
    /\ WF_vars(DeliverEvent)

JobLiveSpec == JobInit /\ [][JobNext]_vars /\ JobFairness
Spec      == Init /\ [][Next]_vars

----
\* Properties of the frame side (checked under FrameSpec)

\* The backend answer for token k arrived when k was no longer current.
Late(k) == call[k] \notin {"none", "awaitInvoke"} /\ k \notin fresh

\* Every issued request has been answered.
AllAnswered == \A k \in 1..requestToken : call[k] # "awaitInvoke"

\* C1: an answer that arrives after a newer request was issued never updates
\* the displayed frame.
C1_FreshnessMonotonicity ==
    \A k \in Tokens : Late(k) => (k \notin Range(shown) /\ frame # k)

C1_Witness ==
    \E k \in Tokens : Late(k) /\ call[k] = "stale" /\ frame = requestToken /\ frame > k

\* C2 as stated: after a burst of N requests, once all N answers have arrived,
\* exactly one frame update has been applied and it is the one of request N.
C2_ExactlyOncePerBurst ==
    (burst /\ requestToken >= 1 /\ AllAnswered) => shown = <<requestToken>>

\* C2 amended: after a burst of N requests, once all N answers have arrived, at
\* most one frame update has been applied and it is the one of request N; none
\* has been applied only while the Nth answer is an error, or its image is
\* still decoding or failed to decode.
C2_AtMostOncePerBurst ==
    (burst /\ requestToken >= 1 /\ AllAnswered) =>
        /\ shown = <<>> \/ shown = <<requestToken>>
        /\ shown = <<>> => call[requestToken] \in {"threw", "awaitDecode", "decodeThrew"}

C2_Witness ==
    /\ burst /\ requestToken >= 2 /\ AllAnswered
    /\ \A k \in 1..(requestToken - 1) : call[k] = "stale"
    /\ shown = <<requestToken>>

\* C3: the frames written to the display are in the order of their requests.
C3_DisplayedInOrder ==
    \A i, j \in 1..Len(shown) : i < j => shown[i] < shown[j]

\* C9 as stated: once requestFrame has run to its end for an answer carrying a
\* frame, the frame has replaced the displayed one if and only if its token was
\* current when the answer was evaluated.
C9_AppliedIffCurrent ==
    \A k \in Tokens :
        call[k] \in {"stale", "applied", "decodeThrew"} =>
            (k \in Range(shown) <=> k \in fresh)

\* C9 amended: a frame is written to the display only if its token was current
\* when its answer was evaluated; and an answer carrying a frame whose token was
\* current is written to the display, in the DOM viewer once its image has
\* decoded, unless the decode fails.
C9_AppliedIffCurrentAndDecoded ==
    \A k \in Tokens :
        /\ k \in Range(shown) => k \in fresh
        /\ (k \in fresh /\ call[k] \notin {"threw", "awaitDecode", "decodeThrew"})
               => k \in Range(shown)
        /\ (ui = "react" /\ k \in fresh /\ call[k] # "threw") => k \in Range(shown)

C9_Witness ==
    \E k, m \in Tokens :
        /\ k \in fresh /\ k \in Range(shown) /\ call[k] = "applied"
        /\ m \notin fresh /\ call[m] = "stale"

----
\* Properties of the job side (checked under JobSpec)


\* C4: startOperation while the running flag is set is refused: no start
\* request is issued, and the flag and the tracked job id stay as they are.
C4_StartRefusedWhileRunning ==
    [][\A p \in BOOLEAN :
          (busy /\ StartOperation(p)) =>
              /\ processStatus' = "AlreadyRunning"
              /\ UNCHANGED <<busy, activeJobId, startCall>>]_vars

\* A start was refused between the start request and its acknowledgement.
C4_Witness ==
    /\ processStatus = "AlreadyRunning" /\ busy /\ activeJobId = NoJob
    /\ \E s \in JobIds : startCall[s] \in {"sent", "ackPending"}

\* C5: at no time are two jobs of the session running at the backend.
C5_AtMostOneActiveJob ==
    Cardinality({j \in JobIds : Running(j)}) <= 1

\* C6: when the `completed` event of a job arrives while a cancellation
\* requested for it is still unprocessed by the backend, the session ends as
\* Completed: the slot is freed, the status reports completion and a frame
\* refresh request is issued.
C6_CancelRaceEndsCompleted ==
    [][\A j \in JobIds :
          (j \in cancelSent /\ job[j] = "completed"
              /\ evQueue # <<>> /\ Head(evQueue) = j /\ DeliverEvent) =>
              /\ activeJobId' = NoJob
              /\ busy' = FALSE
              /\ processStatus' = "Completed"
              /\ requestToken' = requestToken + 1]_vars

\* C7: a terminal event delivered again after its job was retired changes
\* nothing and issues no frame request.
C7_DuplicateTerminalIgnored ==
    [][\A j \in JobIds :
          (j \in retired /\ RedeliverEvent(j)) =>
              UNCHANGED <<busy, activeJobId, processStatus, requestToken, frame, call>>]_vars

\* C8: an event is discarded, with no state change, whenever no job is tracked
\* or its job id is not the tracked one.
C8_UntrackedEventDiscarded ==
    [][\A jid \in JobIds \cup {ForeignJob}, st \in Statuses :
          ((activeJobId = NoJob \/ jid # activeJobId)
              /\ HandleOpEvent([job_id |-> jid, status |-> st])) =>
              UNCHANGED <<busy, activeJobId, processStatus, requestToken, call>>]_vars

\* C10: a terminal event of the tracked job clears the tracked job id and the
\* running flag, and issues a frame request exactly when it is `completed`.
C10_MatchedTerminalEvent ==
    [][\A st \in Terminal :
          (activeJobId # NoJob /\ HandleOpEvent([job_id |-> activeJobId, status |-> st])) =>
              /\ activeJobId' = NoJob
              /\ busy' = FALSE
              /\ IF st = "completed"
                 THEN /\ requestToken' = requestToken + 1
                      /\ call'[requestToken'] = "awaitInvoke"
                      /\ via'[requestToken'] = "refresh"
                 ELSE UNCHANGED <<requestToken, call, via>>]_vars

\* Two tracked jobs have been retired, one as completed (its refresh request is
\* the only frame request) and one as failed or cancelled.
C10_Witness ==
    \E i, j \in JobIds :
        /\ i \in retired /\ job[i] = "completed"
        /\ j \in retired /\ job[j] \in {"failed", "cancelled"}
        /\ activeJobId = NoJob /\ ~busy
        /\ requestToken = 1 /\ call[1] = "awaitInvoke" /\ via[1] = "refresh"

----
\* Further properties of the job side (checked under JobSpec; C13 under
\* JobLiveSpec)

\* C11: cancelOperation does not change the job state: when the cancellation
\* is refused, requested, acknowledged or answered with an error, the running
\* flag and the tracked job id are the same afterwards as before.
C11_CancelKeepsJobState ==
    [][(CancelOperation \/ \E j \in JobIds : (BackendCancel(j) \/ CancelFailed(j)))
          => UNCHANGED <<busy, activeJobId>>]_vars

\* The cancellation of the tracked job was answered with an error, its
\* `completed` event being still on its way, and the job is still tracked.
C11_Witness ==
    /\ busy /\ activeJobId # NoJob
    /\ processStatus = "Error"
    /\ job[activeJobId] = "completed"
    /\ activeJobId \notin cancelSent

\* C12: cancelOperation is refused when the session is idle; whenever the
\* session is running, also before the start acknowledgement has arrived, it
\* requests the cancellation of the tracked job.
C12_CancelIssuedWhenRunning ==
    [][CancelOperation =>
          IF ~busy
          THEN processStatus' = "NoRunningJob" /\ UNCHANGED cancelSent
          ELSE activeJobId # NoJob /\ activeJobId \in cancelSent']_vars

\* The running flag is cleared at the latest when everything in flight has
\* arrived, unless the frame requests of the model are used up.
C13_Exhausted == requestToken = reqCap

\* C13: when the backend ends every job it starts and every acknowledgement
\* and event is delivered, a running session returns to idle.
C13_RunningReturnsToIdle ==
    busy ~> (~busy \/ C13_Exhausted)

\* C16: while a start request that the backend rejects is being handled, the
\* running flag is not set.
C16_RejectedStartNeverRunning ==
    \A s \in JobIds : startCall[s] = "errPending" => ~busy

\* C23: an event whose status is not terminal changes neither the running
\* flag, the tracked job id, the frame token nor the displayed frame, and
\* issues no frame request, whether or not its job is the tracked one.
C23_NonTerminalEventKeepsState ==
    [][\/ UNCHANGED <<busy, activeJobId, requestToken, frame, shown, call>>
       \/ \A jid \in JobIds \cup {ForeignJob} :
             ~HandleOpEvent([job_id |-> jid, status |-> "running"])]_vars

\* A job is tracked and running, and the status bar shows the busy readout
\* that handleOpEvent writes for a `running` event: the state in which such
\* an event is handled, and the state it leaves.
C23_Witness ==
    /\ busy /\ activeJobId # NoJob
    /\ job[activeJobId] = "running"
    /\ startCall[activeJobId] = "acked"
    /\ statusBar = Readout(TRUE)

\* C29: a tracked job id is the id of the job of the most recent start
\* request, and no terminal event of that job has been consumed.
C29_TrackedIsLatestStart ==
    activeJobId # NoJob =>
        /\ \A r \in JobIds : r > activeJobId => startCall[r] = "none"
        /\ activeJobId \notin consumed

\* C30: when the terminal event of a job was consumed before the
\* acknowledgement of its start request arrives, and no start was issued
\* after it, the acknowledgement leaves the session idle with no tracked job.
C30_LateTicketNotTracked ==
    [][\A s \in JobIds :
          (s \in consumed
              /\ (\A r \in JobIds : r > s => startCall[r] = "none")
              /\ StartAck(s)) =>
              (activeJobId' = NoJob /\ busy' = FALSE)]_vars

\* The ticket of a job arrived whose terminal event had been consumed while
\* no job was tracked; nothing is tracked and the session is idle.
C30_Witness ==
    \E s \in JobIds :
        /\ startCall[s] = "acked"
        /\ s \in consumed /\ s \notin retired
        /\ \A r \in JobIds : r > s => startCall[r] = "none"
        /\ activeJobId = NoJob /\ ~busy

\* C31: whenever a job id is tracked, the running flag is set.
C31_TrackedImpliesRunning ==
    activeJobId # NoJob => busy

\* A second job is tracked and the session is running, after the first job
\* was tracked and retired by its terminal event, which cleared both.
C31_Witness ==
    /\ activeJobId # NoJob /\ busy
    /\ startCall[activeJobId] = "acked"
    /\ \E j \in retired : j # activeJobId

\* C32: a rejected start request leaves the session idle with no tracked
\* job, so that the next start is not refused, when no start was issued after
\* it; and it leaves the running flag and the tracked job id as they are
\* when a later start was issued.
C32_RejectionResetsOwnStart ==
    [][\A s \in JobIds :
          StartRejected(s) =>
              IF \A r \in JobIds : r > s => startCall[r] = "none"
              THEN busy' = FALSE /\ activeJobId' = NoJob /\ ~AlreadyRunning'
              ELSE UNCHANGED <<busy, activeJobId>>]_vars

----
\* Further properties of the frame side (checked under FrameSpec)

\* Some invocation of requestFrame is at one of its awaits.
InFlight == \E k \in Tokens : call[k] \in {"awaitInvoke", "awaitDecode"}

\* C14: a backend error for a request that is no longer the current one is
\* discarded: it changes neither the status text nor the displayed frame.
C14_StaleErrorDiscarded ==
    [][\A k \in Tokens :
          (k # requestToken
              /\ (DomFrameResponse(k, FALSE) \/ ReactFrameResponse(k, FALSE)))
          => UNCHANGED <<statusBar, frame, shown>>]_vars

\* C15: a backend error for the current request is shown in the status text
\* when it arrives, whoever issued the request.
C15_CurrentErrorSurfaced ==
    [][\A k \in Tokens :
          (k = requestToken
              /\ (DomFrameResponse(k, FALSE) \/ ReactFrameResponse(k, FALSE)))
          => statusBar' = "Error"]_vars

\* C17: the frame token changes only by a requestFrame that issues a request,
\* which increments it by one and sends the new value, never sent before; and
\* no request is issued without the increment.
C17_TokenIncrementsPerRequest ==
    [][/\ requestToken' \in {requestToken, requestToken + 1}
       /\ \A k \in Tokens :
              (call'[k] = "awaitInvoke" /\ call[k] # "awaitInvoke") <=>
                  (k = requestToken' /\ requestToken' = requestToken + 1 /\ call[k] = "none")]_vars

\* All tokens were handed out, to slider requests and to a refresh request.
C17_Witness ==
    /\ requestToken = MaxReq
    /\ \A k \in Tokens : call[k] # "none"
    /\ \E k, m \in Tokens : via[k] = "slider" /\ via[m] = "refresh"

\* C18: when no request or decode is in flight and the most recently issued
\* request succeeded, the displayed frame is the one of that request, which
\* carries the current axis position.
C18_DisplayedIsLatestIntent ==
    (requestToken >= 1 /\ ~InFlight /\ call[requestToken] = "applied")
        => frame = requestToken

\* C33: a frame request that fails, in the backend call or in the decoding
\* of the image, changes neither the frame held, the image drawn nor the
\* histogram drawn; and the three belong to the same frame at all times.
C33_FailedRequestKeepsFrame ==
    [][/\ \A k \in Tokens :
              (\/ DomFrameResponse(k, FALSE)
               \/ ReactFrameResponse(k, FALSE)
               \/ DecodeDone(k, FALSE))
                  => UNCHANGED <<frame, frameImage, histogram, shown>>
       /\ frameImage' = frame' /\ histogram' = frame']_vars

\* A requested frame is displayed with its image and its histogram, after
\* which one request failed at the backend and another request failed in the
\* decoding of its image (DOM viewer), or two failed at the backend (React
\* viewer).
C33_Witness ==
    \E m, k, l \in Tokens :
        /\ m < k /\ k # l /\ m < l
        /\ call[m] = "applied"
        /\ call[k] = "threw"
        /\ call[l] = IF ui = "dom" THEN "decodeThrew" ELSE "threw"
        /\ frame = m /\ frameImage = m /\ histogram = m

----
\* Frames and jobs together (checked under CoordSpec)

\* Every payload the listener can receive.
AllPayloads ==
    ForeignPayloads \cup {[job_id |-> j, status |-> st] : j \in JobIds, st \in Statuses}

\* A step of the job side other than an event: start, acknowledgement,
\* rejected start, cancel.
JobCall ==
    \/ \E paramsOk \in BOOLEAN : StartOperation(paramsOk)
    \/ \E s \in JobIds : StartAck(s) \/ StartRejected(s)
    \/ CancelOperation
    \/ \E j \in JobIds : CancelFailed(j)

\* A step of the frame side: an axis change, a backend answer, a decode.
FrameStep ==
    \/ \E a \in Axes, v \in 0..PreInitMax : SliderInput(a, v)
    \/ \E k \in Tokens, ok \in BOOLEAN :
          DomFrameResponse(k, ok) \/ ReactFrameResponse(k, ok) \/ DecodeDone(k, ok)

\* C26: start, acknowledgement, rejected start, cancel, and every event that
\* is discarded or is not `completed` leave the frame token and the displayed
\* frame alone; axis changes, backend answers and decodes leave the running
\* flag and the tracked job id alone; and a step of the job side that changes
\* the frame token is a consumed `completed` event issuing one refresh
\* request.
C26_FrameAndJobIndependent ==
    [][/\ JobCall => UNCHANGED <<requestToken, request, frame, shown, call>>
       /\ \A payload \in AllPayloads :
             (HandleOpEvent(payload) /\ (Discards(payload) \/ payload.status # "completed"))
                 => UNCHANGED <<requestToken, request, frame, shown, call>>
       /\ FrameStep => UNCHANGED <<busy, activeJobId, startCall, cancelSent>>
       /\ (JobNext /\ requestToken' # requestToken) =>
             /\ \E payload \in AllPayloads :
                   /\ ~Discards(payload) /\ payload.status = "completed"
                   /\ HandleOpEvent(payload)
             /\ requestToken' = requestToken + 1
             /\ via'[requestToken'] = "refresh"
             /\ UNCHANGED <<frame, shown>>]_vars

\* A frame requested by a slider is displayed, and a job was started,
\* tracked and retired by its `completed` event, which issued the refresh
\* request; the session is idle again.
C26_Witness ==
    /\ requestToken = 2
    /\ via[1] = "slider" /\ via[2] = "refresh"
    /\ frame = 1
    /\ retired # {}
    /\ \E j \in JobIds : job[j] = "completed" /\ j \in retired
    /\ ~busy /\ activeJobId = NoJob

\* C27: once a `completed` event has been consumed and has issued its
\* refresh request, no answer to a request issued before that request is
\* written to the display.
C27_NoOlderFrameAfterCompleted ==
    [][\A k \in Tokens :
          (via[k] = "refresh" /\ frame' # frame) => frame' >= k]_vars

----
\* The axis position (checked under AxisSpec), the round trip between data
\* and canvas coordinates (ViewSpec) and the pointer (PointerSpec)

\* C24: once the viewer is initialised, every step that changes z, t or
\* channel takes exactly one new token and calls the backend with the axis
\* position as it is after the change.
C24_AxisChangeIssuesRequest ==
    [][(initStep # "loading" /\ axis' # axis) =>
          /\ requestToken' = requestToken + 1
          /\ call'[requestToken'] = "awaitInvoke"
          /\ \A k \in Tokens \ {requestToken'} : call'[k] = call[k]
          /\ request' = axis']_vars

\* An initialised viewer whose latest request was issued by a slider move
\* away from position 0 and carries the position the axis has now.
C24_Witness ==
    /\ initStep # "loading"
    /\ requestToken >= 2
    /\ via[requestToken] = "slider"
    /\ request = axis
    /\ \E a \in Axes : axis[a] > 0

\* The axis positions p lie within the extents of the dataset.
InExtents(p) == \A a \in Axes : 0 <= p[a] /\ p[a] <= LastPosition(summary, a)

\* C28: once configureSliders has run, z, t and channel lie between 0 and
\* max(0, extent - 1) of the dataset, and so does the position carried by
\* every frame request.
C28_AxisWithinExtents ==
    initStep # "loading" =>
        /\ InExtents([a \in Axes |-> axis[a]])
        /\ request # NoRequest => InExtents([a \in Axes |-> request[a]])

\* The DOM viewer after configureSliders, with no request issued yet: the
\* slider of z was moved before viewer_init answered, to or beyond the last
\* slice of the dataset, and z is now that last slice.
C28_Witness ==
    /\ ui = "dom"
    /\ initStep # "loading"
    /\ requestToken = 0
    /\ axis["z"] > 0
    /\ axis["z"] = LastPosition(summary, "z")
    /\ LastPosition(summary, "z") < PreInitMax

\* C34: in the React viewer the answer of viewer_init and the effect run that
\* follows it display the default frame and issue no request; the skip flag
\* is raised only by that answer and is lowered by that effect run, so it is
\* raised exactly between the two; and every later change of z, t or channel
\* finds the flag lowered and issues one request for the new position.
C34_SkipFlagConsumedOnce ==
    [][ui = "react" =>
          /\ (skipNext <=> initStep = "configured")
          /\ (skipNext' <=> initStep' = "configured")
          /\ initStep # "ready" =>
                 /\ UNCHANGED <<requestToken, request, call>>
                 /\ initStep' = "ready" =>
                        frame' = DefaultFrame /\ frameImage' = DefaultFrame
          /\ axis' # axis =>
                 /\ ~skipNext /\ ~skipNext'
                 /\ requestToken' = requestToken + 1
                 /\ call'[requestToken'] = "awaitInvoke"
                 /\ request' = axis']_vars

\* The React viewer displayed the default frame of viewer_init without a
\* request; the first axis change issued request 1, whose frame is
\* displayed, and the second one issued request 2.
C34_Witness ==
    /\ ui = "react"
    /\ initStep = "ready" /\ ~skipNext
    /\ shown = <<1>> /\ frame = 1
    /\ requestToken = 2 /\ via[2] = "slider"
    /\ request = axis

HoverPanX == IF ui = "dom" THEN panX' ELSE panX
HoverPanY == IF ui = "dom" THEN panY' ELSE panY

\* C22: a mousemove at a position whose floored data coordinates lie outside
\* the frame, or while no frame is loaded, sets the hover readout to null;
\* otherwise the readout is the sample at index y * width + x of the
\* current frame, and that index lies within [0, width * height).
C22_OutOfBoundsHoverIsNull ==
    [][\A pt \in MouseSamples :
          MouseMove(pt[1], pt[2]) =>
              LET imageX == ToImage(RatInt(pt[1]), HoverPanX, zoom)
                  imageY == ToImage(RatInt(pt[2]), HoverPanY, zoom)
              IN  IF \/ frame = NoFrame
                     \/ imageX \notin 0..(FrameWidth - 1)
                     \/ imageY \notin 0..(FrameHeight - 1)
                  THEN hover' = NoHover
                  ELSE /\ hover'.x = imageX /\ hover'.y = imageY
                       /\ hover'.y * FrameWidth + hover'.x \in 0..(FrameWidth * FrameHeight - 1)
                       /\ hover'.value = Sample(frame, hover'.y * FrameWidth + hover'.x)]_vars

\* A readout on the last row and column of the frame is shown: the pointer
\* moved onto the frame.
C22_Witness ==
    /\ hover # NoHover
    /\ hover.x = FrameWidth - 1 /\ hover.y = FrameHeight - 1
    /\ hover.value = Sample(frame, FrameWidth * FrameHeight - 1)

\* The hover readout is on display: the React viewer renders it in its
\* footer at all times, the DOM viewer writes it with updateStatusBar.
ReadoutShown ==
    /\ hover # NoHover
    /\ ui = "dom" => statusBar \in {Readout(TRUE), Readout(FALSE)}

\* C35 (checked under HoverSpec): whenever a hover readout is shown, its
\* position lies within the displayed frame and its value is the sample of
\* the displayed frame at that position, also after the frame was replaced
\* while the pointer rested.
C35_HoverMatchesDisplayedFrame ==
    ReadoutShown =>
        /\ hover.x \in 0..(FrameWidth - 1)
        /\ hover.y \in 0..(FrameHeight - 1)
        /\ hover.value = Sample(frame, hover.y * FrameWidth + hover.x)

\* C25: wheel zoom, the menu zoom commands, view reset, mouse down, up,
\* move (drag and hover) and leave call no backend and change neither the
\* displayed frame, the frame token, the axis position, the running flag nor
\* the tracked job id; a mousemove without drag and a mouseleave also leave
\* zoom and pan as they are.
C25_ViewportIsClientSide ==
    [][PointerNext =>
          /\ UNCHANGED <<frame, shown, requestToken, request, call, axis, busy, activeJobId>>
          /\ UNCHANGED <<startCall, cancelSent>>
          /\ (MouseLeave \/ (~Drags /\ \E pt \in MouseSamples : MouseMove(pt[1], pt[2])))
                => UNCHANGED <<zoom, panX, panY>>]_vars

\* The viewport differs from the initial one, a readout is shown and the
\* image is being dragged, while the default frame is displayed and no
\* request was issued.
C25_Witness ==
    /\ viewSteps > 0
    /\ zoom # InitialZoom
    /\ hover # NoHover
    /\ dragging
    /\ frame = DefaultFrame /\ requestToken = 0

----
\* Properties of the control window (ControlSpec), the legacy UI (LegacySpec)
\* and the toast provider (ToastSpec)

\* C36: once the component has unmounted and the subscription call of its
\* effect has resolved, the handler of that effect is no longer subscribed
\* (and so never runs again), whether the unmount came before or after the
\* call resolved.
C36_UnmountedIsUnsubscribed ==
    \A e \in cleaned : listenCall[e] = "resolved" => e \notin registered

\* No render() invocation of the legacy UI is at an await, and at least one
\* was made.
LegacySettled ==
    /\ renders # <<>>
    /\ \A r \in Renders : renders[r].call = "done"

\* C37: once every backend answer has arrived, the image and the histogram
\* displayed are those of the selected (z, t, channel); and whenever the
\* status is Ready, the image and the histogram displayed belong to the same
\* position.
C37_LegacyShowsLastSelection ==
    /\ LegacySettled => (image = inputState /\ drawn = inputState)
    /\ status = "Ready" => image = drawn

\* The position of toast id in the list.
ToastIndex(list, id) == CHOOSE i \in 1..Len(list) : list[i] = id

\* C38: dismiss(id), by the timer or by a caller, removes the toast with
\* that id and no other, keeps the remaining toasts in their order, and
\* changes nothing when no toast has that id; and every toast in the list is
\* eventually removed.
C38_ToastsRemoved ==
    /\ [][\A id \in ToastIds :
             (Dismiss(id) \/ TimerFires(id)) =>
                 /\ Range(toasts') = Range(toasts) \ {id}
                 /\ Len(toasts') = Cardinality(Range(toasts'))
                 /\ \A i, j \in 1..Len(toasts') :
                        i < j => ToastIndex(toasts, toasts'[i]) < ToastIndex(toasts, toasts'[j])
                 /\ id \notin Range(toasts) => toasts' = toasts]_vars
    /\ \A id \in ToastIds : (id \in Range(toasts)) ~> (id \notin Range(toasts))

\* The second of three toasts was dismissed by a caller while its timer is
\* still armed; the first and the third are listed in their order.
C38_Witness ==
    /\ toasts = <<1, 3>>
    /\ created = 3
    /\ armed = {1, 2, 3}

----
\* Properties of the viewport (checked under ViewSpec)

\* C19: the zoom is always within [0.1, 64], and so never 0, whatever wheel
\* zooms, menu zoom commands and view resets are carried out.
C19_ZoomWithinRange ==
    /\ RatLeq(ZoomMin, zoom)
    /\ RatLeq(zoom, ZoomMax)
    /\ zoom.n # 0

\* A zoom operation was limited by the range and left the zoom on a limit.
C19_Witness ==
    /\ clamped
    /\ zoom \in {ZoomMin, ZoomMax}

====
